---- MODULE Spec2Model ----
(***************************************************************************)
(* A model of the Catan board generator (src/src/CatanBoard.tsx): the      *)
(* seed codec, the mulberry32 random source, the Fisher-Yates shuffle,     *)
(* the adjacency table, the constraint rule, the backtracking placer, the  *)
(* board assembler and the component's URL-hash handlers.                  *)
(*                                                                         *)
(* Strings are sequences of one-character strings.  A 32-bit integer is a  *)
(* pair <<hi, lo>> of 16-bit halves, so that every operation wraps at 32   *)
(* bits exactly as the JavaScript operators |0, >>>, ^ and Math.imul do.   *)
(* Positions are the code's indices 0..18; a sequence that models an array *)
(* holds index i at place i + 1.                                           *)
(***************************************************************************)
EXTENDS Integers, Sequences, FiniteSets, TLC

VARIABLES
    \* the running call of generateBoardFromSeed / generateBoard
    pc,           \* where the call stands: "idle", "loop", "shuffleTiles",
                  \* "shuffleNumbers", "place", "search", "searched", "done"
    callArgs,     \* <<>> or <<[seed, enforceConstraint]>>: the arguments of generateBoardFromSeed
    rng,          \* the state s of the random source
    draws,        \* calls of the source since it was built
    shuf,         \* the running shuffle: its result array and its loop counter i
    shuffledTiles,   \* generateBoard's shuffledTiles
    shuffledNumbers, \* generateBoard's shuffledNumbers
    enforce,      \* the enforceConstraint parameter of the running generateBoard
    attempt,      \* its loop counter
    tries,        \* loop iterations begun since generateBoardFromSeed was called
    warned,       \* console.warn was called
    board,        \* the tiles array of the current attempt; at "done", the returned one
    stack,        \* the frames of placeNumbersWithBacktracking, outermost first
    found,        \* what the outermost placeNumbersWithBacktracking returned
    input,        \* the arguments of the outermost placeNumbersWithBacktracking call
    first,        \* <<>> or the first completed call: its arguments and its result
    \* the component
    mounted,      \* the component has rendered
    hash,         \* the URL fragment (window.location.hash without its '#')
    seed,         \* useState: seed
    enforceConstraint, \* useState: enforceConstraint
    tiles,        \* useState: tiles
    pending,      \* hashchange events not yet delivered
    handler,      \* the last handler entered: its name, whether it is still running
                  \* (waiting for generateBoardFromSeed), and the values it will set
    \* the codec under test
    raw,          \* the string at hand
    built,        \* <<>> or <<[seed, enforceConstraint]>>: raw is buildHash of these
    edits,        \* characters of raw changed since
    parsed        \* <<>> (parseHash not called), or <<r>> with r what it returned

genVars == <<pc, callArgs, rng, draws, shuf, shuffledTiles, shuffledNumbers, enforce, attempt,
             tries, warned, board, stack, found, input, first>>
uiVars == <<mounted, hash, seed, enforceConstraint, tiles, pending, handler>>
codecVars == <<raw, built, edits, parsed>>
vars == <<genVars, uiVars, codecVars>>

\* ------------------------------------------------------------------ bounds

\* The seed strings of the board runs: GoldenSeed and SeedPrefix followed by
\* one of the first NumSeedChars characters of SEED_CHARS.
NumSeedChars == 18

\* The seed strings the component draws from: the first NumUiSeeds of those.
NumUiSeeds == 2

\* hashchange events that may be queued at once.
MaxPending == 2

\* The longest positions/numbers lists handed to the placer on its own.
MaxPlaceLen == 3

\* Characters of a state string that may be edited before it is parsed.
MaxEdits == 1

\* ------------------------------------------------------- 32-bit arithmetic

W16 == 65536

RECURSIVE Xor16(_, _)
Xor16(a, b) ==
    IF a = 0 THEN b
    ELSE IF b = 0 THEN a
    ELSE ((a + b) % 2) + 2 * Xor16(a \div 2, b \div 2)

RECURSIVE Or16(_, _)
Or16(a, b) ==
    IF a = 0 THEN b
    ELSE IF b = 0 THEN a
    ELSE (IF a % 2 = 1 \/ b % 2 = 1 THEN 1 ELSE 0) + 2 * Or16(a \div 2, b \div 2)

\* a ^ b
Xor32(a, b) == <<Xor16(a[1], b[1]), Xor16(a[2], b[2])>>

\* a | k for a constant k below 2^16
OrSmall(a, k) == <<a[1], Or16(a[2], k)>>

\* (a + b) | 0
Add32(a, b) ==
    LET lo == a[2] + b[2]
    IN  <<(a[1] + b[1] + (lo \div W16)) % W16, lo % W16>>

RECURSIVE Pow2(_)
Pow2(k) == IF k = 0 THEN 1 ELSE 2 * Pow2(k - 1)

\* a >>> k, for 0 < k < 16
Shr32(a, k) ==
    <<a[1] \div Pow2(k), (a[2] \div Pow2(k)) + (a[1] % Pow2(k)) * Pow2(16 - k)>>

\* The low 16 bits of x * y, for x, y below 2^16
MulLo16(x, y) == (((x % 256) * y) + ((((x \div 256) * y) % 256) * 256)) % W16

\* x * y as a 32-bit pair, for x, y below 2^16
Mul16(x, y) ==
    LET p0 == (x % 256) * y
        p1 == (x \div 256) * y
        lo == p0 + (p1 % 256) * 256
    IN  <<((lo \div W16) + (p1 \div 256)) % W16, lo % W16>>

\* Math.imul(a, b): the low 32 bits of the product
Imul(a, b) ==
    LET ll == Mul16(a[2], b[2])
    IN  <<(ll[1] + MulLo16(a[1], b[2]) + MulLo16(a[2], b[1])) % W16, ll[2]>>

\* Math.floor((u / 4294967296) * n) for a 32-bit u and 0 < n < 2^15: the
\* division by 2^32 and the product are exact in double precision.
FloorScale(u, n) == (u[1] * n + ((u[2] * n) \div W16)) \div W16

\* ---------------------------------------------------------------- constants

\* number: null
Null == 0

TILES ==
    << "forest", "forest", "forest", "forest",
       "pasture", "pasture", "pasture", "pasture",
       "field", "field", "field", "field",
       "hill", "hill", "hill",
       "mountain", "mountain", "mountain",
       "desert" >>

NUMBERS == <<2, 3, 3, 4, 4, 5, 5, 6, 6, 8, 8, 9, 9, 10, 10, 11, 11, 12>>

ROW_SIZES == <<3, 4, 5, 4, 3>>

\* ADJACENCY[p + 1] lists the neighbours of hex p
ADJACENCY ==
    << <<1, 3, 4>>,
       <<0, 2, 4, 5>>,
       <<1, 5, 6>>,
       <<0, 4, 7, 8>>,
       <<0, 1, 3, 5, 8, 9>>,
       <<1, 2, 4, 6, 9, 10>>,
       <<2, 5, 10, 11>>,
       <<3, 8, 12>>,
       <<3, 4, 7, 9, 12, 13>>,
       <<4, 5, 8, 10, 13, 14>>,
       <<5, 6, 9, 11, 14, 15>>,
       <<6, 10, 15, 16>>,
       <<7, 8, 13, 17>>,
       <<8, 9, 12, 14, 17, 18>>,
       <<9, 10, 13, 15, 18>>,
       <<10, 11, 14, 16, 18>>,
       <<11, 15>>,
       <<12, 13, 18>>,
       <<13, 14, 15, 17>> >>

Range(f) == {f[i] : i \in DOMAIN f}

\* ------------------------------------------------------------ random source

\* 0x6D2B79F5
Increment == <<27947, 31221>>

\* mulberry32(seed): the state s of the returned closure, s = seed | 0
mulberry32(seedInt) == seedInt

\* One call of the closure: the new state s and the 32-bit numerator u of the
\* returned value u / 4294967296
random(s0) ==
    LET s  == Add32(s0, Increment)
        t1 == Imul(Xor32(s, Shr32(s, 15)), OrSmall(s, 1))
        t2 == Xor32(Add32(t1, Imul(Xor32(t1, Shr32(t1, 7)), OrSmall(t1, 61))), t1)
    IN  [s |-> s, u |-> Xor32(t2, Shr32(t2, 14))]

\* --------------------------------------------------------------- seed codec

Lower ==
    << "a", "b", "c", "d", "e", "f", "g", "h", "i", "j", "k", "l", "m",
       "n", "o", "p", "q", "r", "s", "t", "u", "v", "w", "x", "y", "z" >>

Digits == <<"0", "1", "2", "3", "4", "5", "6", "7", "8", "9">>

SEED_CHARS == Lower \o Digits

\* str.charCodeAt(i) for the characters the model uses
charCode(c) ==
    IF c \in Range(Lower) THEN 96 + (CHOOSE i \in DOMAIN Lower : Lower[i] = c)
    ELSE IF c \in Range(Digits) THEN 47 + (CHOOSE i \in DOMAIN Digits : Digits[i] = c)
    ELSE IF c = "A" THEN 65
    ELSE IF c = "B" THEN 66
    ELSE IF c = "C" THEN 67
    ELSE IF c = "-" THEN 45
    ELSE IF c = "/" THEN 47
    ELSE IF c = ":" THEN 58
    ELSE IF c = "{" THEN 123
    ELSE 35

\* hash * 31 + code, wrapped to 32 bits
HashStep(h, code) == Add32(Imul(h, <<0, 31>>), <<0, code>>)

RECURSIVE hashFrom(_, _, _)
hashFrom(str, i, h) ==
    IF i > Len(str) THEN h
    ELSE hashFrom(str, i + 1, HashStep(h, charCode(str[i])))

hashToSeed(str) == hashFrom(str, 1, <<0, 0>>)

\* The character classes of /^([a-z0-9]{6})-([01])$/ in order: a class holds a
\* character when its code lies in one of the class's ranges.
LowerOrDigit == {<<97, 122>>, <<48, 57>>}

HashPattern ==
    <<LowerOrDigit, LowerOrDigit, LowerOrDigit, LowerOrDigit, LowerOrDigit, LowerOrDigit,
      {<<45, 45>>}, {<<48, 49>>}>>

InClass(c, class) == \E range \in class : range[1] <= charCode(c) /\ charCode(c) <= range[2]

\* Mutant: the pattern without its final $
matchHashUnanchored(str) ==
    /\ Len(str) >= Len(HashPattern)
    /\ \A k \in DOMAIN HashPattern : InClass(str[k], HashPattern[k])

\* hash.match(/^([a-z0-9]{6})-([01])$/) finds a match: ^ holds the match to the
\* start of the string, each class takes one character, and $ holds its end
\* to the end of the string.
matchHash(str) ==
    /\ Len(str) = Len(HashPattern)
    /\ \A k \in DOMAIN HashPattern : InClass(str[k], HashPattern[k])

\* parseHash(hash): <<>> for null, and <<r>> for the object r
parseHash(str) ==
    IF ~matchHash(str) THEN <<>>
    ELSE <<[seed |-> SubSeq(str, 1, 6), enforceConstraint |-> (str[8] = "1")]>>

\* Mutant: the flag characters the other way round
buildHashFlipped(seedStr, flag) == seedStr \o <<"-">> \o <<IF flag THEN "0" ELSE "1">>

\* buildHash(seed, enforceConstraint)
buildHash(seedStr, flag) == seedStr \o <<"-">> \o <<IF flag THEN "1" ELSE "0">>

\* ------------------------------------------------------------------ shuffle

Swap(a, i, j) == [a EXCEPT ![i + 1] = a[j + 1], ![j + 1] = a[i + 1]]

\* shuffle(array, random) is called: const result = [...array]; i = length - 1
callShuffle(array) == shuf' = [result |-> array, i |-> Len(array) - 1]

\* One iteration of the loop of shuffle, with r the source's answer
shuffleIteration(sh, r) ==
    [result |-> Swap(sh.result, sh.i, FloorScale(r.u, sh.i + 1)), i |-> sh.i - 1]

\* ---------------------------------------------------------- constraint rule

violatesConstraint(num1, num2) ==
    IF num1 = Null \/ num2 = Null THEN FALSE
    ELSE IF (num1 = 6 \/ num1 = 8) /\ (num2 = 6 \/ num2 = 8) THEN TRUE
    ELSE IF (num1 = 2 \/ num1 = 12) /\ (num2 = 2 \/ num2 = 12) THEN TRUE
    ELSE FALSE

\* Mutant: the test of the loop inverted
isValidPlacementInverted(tilesArg, position, number, enforceArg) ==
    IF ~enforceArg THEN TRUE
    ELSE \A k \in DOMAIN ADJACENCY[position + 1] :
            violatesConstraint(number, tilesArg[ADJACENCY[position + 1][k] + 1].number)

\* Mutant: the last neighbour never looked at
isValidPlacementShort(tilesArg, position, number, enforceArg) ==
    IF ~enforceArg THEN TRUE
    ELSE \A k \in 1..(Len(ADJACENCY[position + 1]) - 1) :
            ~violatesConstraint(number, tilesArg[ADJACENCY[position + 1][k] + 1].number)

isValidPlacement(tilesArg, position, number, enforceArg) ==
    IF ~enforceArg THEN TRUE
    ELSE \A k \in DOMAIN ADJACENCY[position + 1] :
            ~violatesConstraint(number, tilesArg[ADJACENCY[position + 1][k] + 1].number)

\* ------------------------------------------------------- backtracking placer

\* Mutant: slice(i) for slice(i + 1) keeps the placed number in the list and
\* drops the last one
RemoveAtKeeping(numbers, i) == SubSeq(numbers, 1, i) \o SubSeq(numbers, i + 1, Len(numbers) - 1)

\* [...numbers.slice(0, i), ...numbers.slice(i + 1)]
RemoveAt(numbers, i) == SubSeq(numbers, 1, i) \o SubSeq(numbers, i + 2, Len(numbers))

\* Mutant: the placement is left in place when the recursive call fails
keepPlacement(tilesArg, pos) == tilesArg

\* tiles[pos].number = null
undoPlacement(tilesArg, pos) == [tilesArg EXCEPT ![pos + 1].number = Null]

\* A frame of placeNumbersWithBacktracking: its arguments positions and
\* numbers, and its loop counter i.  The tiles array is shared by all frames.
Frame(positions, numbers) == [positions |-> positions, numbers |-> numbers, i |-> 0]

\* placeNumbersWithBacktracking(tiles, positions, numbers) is called
callPlace(tilesArg, positions, numbers) ==
    /\ board' = tilesArg
    /\ stack' = <<Frame(positions, numbers)>>
    /\ input' = [tiles |-> tilesArg, positions |-> positions, numbers |-> numbers]
    /\ found' = FALSE
    /\ pc' = "search"

\* One step of the innermost running call of placeNumbersWithBacktracking:
\*   numbers.length === 0: it returns true, and so does every caller in turn;
\*   the loop is over: it returns false, and its caller clears tiles[pos] and
\*     goes on with its next candidate;
\*   otherwise candidate numbers[i] is placed and the recursive call made, or,
\*     if it is no valid placement, the loop goes on.
PlaceStep ==
    /\ pc = "search"
    /\ LET d   == Len(stack)
           top == stack[d]
       IN  IF Len(top.numbers) = 0
           THEN /\ pc' = "searched"
                /\ found' = TRUE
                /\ stack' = <<>>
                /\ board' = board
           ELSE IF top.i >= Len(top.numbers)
           THEN IF d = 1
                THEN /\ pc' = "searched"
                     /\ found' = FALSE
                     /\ stack' = <<>>
                     /\ board' = board
                ELSE LET caller == stack[d - 1]
                     IN  /\ board' = undoPlacement(board, caller.positions[1])
                         /\ stack' = [SubSeq(stack, 1, d - 1) EXCEPT ![d - 1].i = caller.i + 1]
                         /\ UNCHANGED <<pc, found>>
           ELSE LET pos == top.positions[1]
                    num == top.numbers[top.i + 1]
                IN  IF isValidPlacement(board, pos, num, TRUE)
                    THEN /\ board' = [board EXCEPT ![pos + 1].number = num]
                         /\ stack' = Append(stack, Frame(Tail(top.positions),
                                                         RemoveAt(top.numbers, top.i)))
                         /\ UNCHANGED <<pc, found>>
                    ELSE /\ stack' = [stack EXCEPT ![d].i = top.i + 1]
                         /\ UNCHANGED <<pc, found, board>>
    /\ UNCHANGED <<callArgs, rng, draws, shuf, shuffledTiles, shuffledNumbers, enforce,
                   attempt, tries, warned, input, first>>
    /\ UNCHANGED <<uiVars, codecVars>>

\* ----------------------------------------------------------- board assembler

maxAttempts == 1000

\* tiles.findIndex(t => t.resource === 'desert')
desertIndexOf(tilesArg) ==
    IF \E i \in DOMAIN tilesArg : tilesArg[i].resource = "desert"
    THEN (CHOOSE i \in DOMAIN tilesArg :
            /\ tilesArg[i].resource = "desert"
            /\ \A j \in 1..(i - 1) : tilesArg[j].resource # "desert") - 1
    ELSE -1

\* tiles.map((_, i) => i).filter(i => i !== desertIndex)
RECURSIVE indicesExcept(_, _, _)
indicesExcept(n, desertIndex, i) ==
    IF i >= n THEN <<>>
    ELSE (IF i # desertIndex THEN <<i>> ELSE <<>>) \o indicesExcept(n, desertIndex, i + 1)

\* for (i ...) tiles[nonDesertIndices[i]].number = numbersToPlace[i]
RECURSIVE simplePlacement(_, _, _, _)
simplePlacement(tilesArg, nonDesertIndices, numbersToPlace, i) ==
    IF i >= Len(nonDesertIndices) THEN tilesArg
    ELSE simplePlacement(
             [tilesArg EXCEPT ![nonDesertIndices[i + 1] + 1].number = numbersToPlace[i + 1]],
             nonDesertIndices, numbersToPlace, i + 1)

\* shuffledTiles.map(resource => ({ resource, number: null }))
freshTiles(resources) ==
    [i \in 1..Len(resources) |-> [resource |-> resources[i], number |-> Null]]

\* generateBoard at the head of its loop.  While attempt < maxAttempts the
\* iteration starts with shuffle(TILES, random); after the loop generateBoard
\* warns and calls generateBoard(false, random), whose loop starts at 0 with
\* the same source.
GenLoop ==
    /\ pc = "loop"
    /\ IF attempt < maxAttempts
       THEN /\ callShuffle(TILES)
            /\ pc' = "shuffleTiles"
            /\ tries' = tries + 1
            /\ UNCHANGED <<enforce, attempt, warned>>
       ELSE /\ warned' = TRUE
            /\ enforce' = FALSE
            /\ attempt' = 0
            /\ UNCHANGED <<pc, tries, shuf>>
    /\ UNCHANGED <<callArgs, rng, draws, shuffledTiles, shuffledNumbers, board, stack, found,
                   input, first>>
    /\ UNCHANGED <<uiVars, codecVars>>

\* The running shuffle: one iteration of its loop, which draws once from the
\* source, or its return; shuffle(NUMBERS, random) follows shuffle(TILES, random).
ShuffleStep ==
    /\ pc \in {"shuffleTiles", "shuffleNumbers"}
    /\ IF shuf.i > 0
       THEN /\ shuf' = shuffleIteration(shuf, random(rng))
            /\ rng' = random(rng).s
            /\ draws' = draws + 1
            /\ UNCHANGED <<pc, shuffledTiles, shuffledNumbers>>
       ELSE IF pc = "shuffleTiles"
       THEN /\ shuffledTiles' = shuf.result
            /\ callShuffle(NUMBERS)
            /\ pc' = "shuffleNumbers"
            /\ UNCHANGED <<rng, draws, shuffledNumbers>>
       ELSE /\ shuffledNumbers' = shuf.result
            /\ pc' = "place"
            /\ UNCHANGED <<rng, draws, shuf, shuffledTiles>>
    /\ UNCHANGED <<callArgs, enforce, attempt, tries, warned, board, stack, found, input, first>>
    /\ UNCHANGED <<uiVars, codecVars>>

\* The rest of the loop iteration: the fresh tiles array, the desert and the
\* other indices, and then the call of the placer (constrained) or the simple
\* placement and the return (unconstrained).
GenPlace ==
    /\ pc = "place"
    /\ LET fresh            == freshTiles(shuffledTiles)
           desertIndex      == desertIndexOf(fresh)
           nonDesertIndices == indicesExcept(Len(fresh), desertIndex, 0)
           numbersToPlace   == shuffledNumbers
       IN  IF enforce
           THEN callPlace(fresh, nonDesertIndices, numbersToPlace)
           ELSE /\ board' = simplePlacement(fresh, nonDesertIndices, numbersToPlace, 0)
                /\ pc' = "done"
                /\ UNCHANGED <<stack, found, input>>
    /\ UNCHANGED <<callArgs, rng, draws, shuf, shuffledTiles, shuffledNumbers, enforce,
                   attempt, tries, warned, first>>
    /\ UNCHANGED <<uiVars, codecVars>>

\* Mutant: the test of the search's result inverted
GenAfterSearchInverted ==
    /\ pc = "searched"
    /\ callArgs # <<>>
    /\ IF ~found
       THEN /\ pc' = "done"
            /\ UNCHANGED attempt
       ELSE /\ pc' = "loop"
            /\ attempt' = attempt + 1
    /\ UNCHANGED <<callArgs, rng, draws, shuf, shuffledTiles, shuffledNumbers, enforce, tries,
                   warned, board, stack, found, input, first>>
    /\ UNCHANGED <<uiVars, codecVars>>

\* generateBoard after placeNumbersWithBacktracking returned: it returns the
\* tiles on success, and goes to the next loop iteration otherwise.
GenAfterSearch ==
    /\ pc = "searched"
    /\ callArgs # <<>>
    /\ IF found
       THEN /\ pc' = "done"
            /\ UNCHANGED attempt
       ELSE /\ pc' = "loop"
            /\ attempt' = attempt + 1
    /\ UNCHANGED <<callArgs, rng, draws, shuf, shuffledTiles, shuffledNumbers, enforce, tries,
                   warned, board, stack, found, input, first>>
    /\ UNCHANGED <<uiVars, codecVars>>

\* Mutant: one source for the module, built by the first call and used by all
sharedSource(seedStr) == IF pc = "done" THEN rng ELSE mulberry32(hashToSeed(seedStr))

\* The random source generateBoardFromSeed builds for its call
seedSource(seedStr) == mulberry32(hashToSeed(seedStr))

NoInput == [tiles |-> <<>>, positions |-> <<>>, numbers |-> <<>>]

NoShuffle == [result |-> <<>>, i |-> 0]

\* generateBoardFromSeed(seed, enforceConstraint) is called: a new source, and
\* a new generateBoard whose locals are not yet set
callGenerate(seedStr, flag) ==
    /\ callArgs' = <<[seed |-> seedStr, enforceConstraint |-> flag]>>
    /\ rng' = seedSource(seedStr)
    /\ draws' = 0
    /\ enforce' = flag
    /\ attempt' = 0
    /\ tries' = 0
    /\ warned' = FALSE
    /\ pc' = "loop"
    /\ shuf' = NoShuffle
    /\ shuffledTiles' = <<>>
    /\ shuffledNumbers' = <<>>
    /\ board' = <<>>
    /\ stack' = <<>>
    /\ found' = FALSE
    /\ input' = NoInput

\* ------------------------------------------------------------- board runs

GoldenSeed == <<"a", "1", "b", "2", "c", "3">>

SeedPrefix == <<"c", "a", "t", "a", "n">>

SeedString(i) == SeedPrefix \o <<SEED_CHARS[i]>>

BoardSeeds == {GoldenSeed} \cup {SeedString(i) : i \in 1..NumSeedChars}

\* No handler has run yet
NoHandler == [name |-> "none", running |-> FALSE, seed |-> <<>>, enforceConstraint |-> FALSE]

GenIdle ==
    /\ pc = "idle"
    /\ callArgs = <<>>
    /\ rng = <<0, 0>>
    /\ draws = 0
    /\ shuf = NoShuffle
    /\ shuffledTiles = <<>>
    /\ shuffledNumbers = <<>>
    /\ enforce = FALSE
    /\ attempt = 0
    /\ tries = 0
    /\ warned = FALSE
    /\ board = <<>>
    /\ stack = <<>>
    /\ found = FALSE
    /\ input = NoInput
    /\ first = <<>>

UiIdle ==
    /\ mounted = FALSE
    /\ hash = <<>>
    /\ seed = <<>>
    /\ enforceConstraint = FALSE
    /\ tiles = <<>>
    /\ pending = 0
    /\ handler = NoHandler

CodecIdle ==
    /\ raw = <<>>
    /\ built = <<>>
    /\ edits = 0
    /\ parsed = <<>>

InitBoard == GenIdle /\ UiIdle /\ CodecIdle

\* A caller calls generateBoardFromSeed(seedStr, flag); the first call that
\* completed is remembered with its result.
BoardCall ==
    /\ pc \in {"idle", "done"}
    /\ \E seedStr \in BoardSeeds, flag \in BOOLEAN : callGenerate(seedStr, flag)
    /\ first' = IF pc = "done" /\ first = <<>>
                THEN <<[args |-> callArgs[1], tiles |-> board]>>
                ELSE first
    /\ UNCHANGED <<uiVars, codecVars>>

NextBoard == BoardCall \/ GenLoop \/ ShuffleStep \/ GenPlace \/ PlaceStep \/ GenAfterSearch

SpecBoard == InitBoard /\ [][NextBoard]_vars

\* ------------------------------------------------------ claims: board runs

Count(seq, x) == Cardinality({i \in DOMAIN seq : seq[i] = x})

Resources == {"forest", "pasture", "field", "hill", "mountain", "desert"}

Tokens == {2, 3, 4, 5, 6, 8, 9, 10, 11, 12}

ResourcesOf(b) == [i \in DOMAIN b |-> b[i].resource]

NumbersOf(b) == [i \in DOMAIN b |-> b[i].number]

\* A valid Board: 19 cells, the resource multiset of TILES, one desert and it
\* alone without a number, the token multiset of NUMBERS.
ValidBoard(b) ==
    /\ Len(b) = 19
    /\ \A r \in Resources : Count(ResourcesOf(b), r) = Count(TILES, r)
    /\ Count(ResourcesOf(b), "desert") = 1
    /\ \A i \in DOMAIN b : (b[i].number = Null) <=> (b[i].resource = "desert")
    /\ \A n \in Tokens : Count(NumbersOf(b), n) = Count(NUMBERS, n)
    /\ \A i \in DOMAIN b : b[i].number \in Tokens \cup {Null}

\* The rule as the specification words it: both tokens in {6,8}, or both in {2,12}
Forbidden(a, b) == ({a, b} \subseteq {6, 8}) \/ ({a, b} \subseteq {2, 12})

NoForbiddenNeighbours(b) ==
    \A p \in 0..18 : \A q \in Range(ADJACENCY[p + 1]) :
        ~Forbidden(b[p + 1].number, b[q + 1].number)

Returned == pc = "done"

Args == callArgs[1]

\* C1: a call of generateBoardFromSeed returns the same 19 cells as the first
\* completed call did whenever its seed and flag are that call's, whatever
\* calls were made in between.
C1_Determinism ==
    (Returned /\ first # <<>> /\ first[1].args = Args) => board = first[1].tiles

\* C1 witness: a second call with the first call's arguments has returned.
C1_Witness ==
    /\ Returned /\ first # <<>> /\ first[1].args = Args
    /\ Args.enforceConstraint
    /\ board = first[1].tiles

\* C2: every board generateBoard returns is a valid Board, for either flag.
C2_ValidBoard == Returned => ValidBoard(board)

\* C2 witness: a constrained call has returned a valid board that is not the
\* in-order placement of the shuffled numbers.
C2_Witness ==
    /\ Returned /\ Args.enforceConstraint /\ ValidBoard(board)
    /\ board # simplePlacement(input.tiles, input.positions, input.numbers, 0)

\* C3: a board returned from the constrained branch has no adjacent pair of
\* the table with both numbers in {6,8} or both in {2,12}.
C3_ConstraintInvariant ==
    (Returned /\ Args.enforceConstraint /\ ~warned) => NoForbiddenNeighbours(board)

\* C3 witness: a constrained board has been returned for shuffled numbers
\* whose in-order placement would have put a forbidden pair on the board.
C3_Witness ==
    /\ Returned /\ Args.enforceConstraint /\ ~warned
    /\ ~NoForbiddenNeighbours(simplePlacement(input.tiles, input.positions, input.numbers, 0))
    /\ NoForbiddenNeighbours(board)

Listed(p, q) == q \in Range(ADJACENCY[p + 1])

\* With the desert on hex d the table leaves four hexes for 6, 6, 8, 8 and two
\* more for 2 and 12 with no two of a group listed as neighbours, so that a
\* conflict-free assignment of NUMBERS exists whatever their order.
RoomFor(d) ==
    LET free == (0..18) \ {d}
    IN  \E a \in free : \E b \in free : \E c \in free : \E e \in free :
            /\ a < b /\ b < c /\ c < e
            /\ ~Listed(a, b) /\ ~Listed(a, c) /\ ~Listed(a, e)
            /\ ~Listed(b, c) /\ ~Listed(b, e) /\ ~Listed(c, e)
            /\ \E f \in free \ {a, b, c, e} : \E g \in free \ {a, b, c, e} :
                   f # g /\ ~Listed(f, g) /\ ~Listed(g, f)

\* C10: the constrained search succeeds in the first loop iteration, so that
\* no call retries or warns, and two calls with the same seed return the same
\* resource at every position whatever their flags; for every hex of the
\* desert a conflict-free assignment exists for the search to find.
C10_NoRetry ==
    /\ pc = "idle" => \A d \in 0..18 : RoomFor(d)
    /\ attempt = 0 /\ tries <= 1 /\ ~warned
    /\ pc = "searched" => found
    /\ (Returned /\ first # <<>> /\ first[1].args.seed = Args.seed)
          => ResourcesOf(board) = ResourcesOf(first[1].tiles)

\* C10 witness: the same seed has been run with both flags, and the two
\* boards differ in where the numbers sit.
C10_Witness ==
    /\ Returned /\ first # <<>> /\ first[1].args.seed = Args.seed
    /\ first[1].args.enforceConstraint # Args.enforceConstraint
    /\ NumbersOf(board) # NumbersOf(first[1].tiles)
    /\ ResourcesOf(board) = ResourcesOf(first[1].tiles)

\* -------------------------------------------------------------- codec runs

CodecSeeds ==
    {GoldenSeed, <<"a", "z", "0", "9", "a", "z">>, <<"0", "0", "0", "0", "0", "0">>}

\* The strings the specification lists as rejected, and the empty string
RejectionExamples ==
    { <<"A", "B", "1", "2", "C", "-", "1">>,
      <<"a", "b", "c", "d", "e", "-", "1">>,
      <<"a", "b", "c", "d", "e", "f", "-", "2">>,
      <<"a", "b", "c", "d", "e", "f", "1">>,
      <<>> }

\* The characters an edit may write: the ends of the pattern's ranges, their
\* outer neighbours, an uppercase letter, the separator and '#'
EditChars == {"a", "z", "0", "1", "2", "9", "A", "-", "/", ":", "{", "#"}

InitCodec ==
    /\ GenIdle /\ UiIdle
    /\ raw \in RejectionExamples
    /\ built = <<>>
    /\ edits = 0
    /\ parsed = <<>>

\* buildHash(seedStr, flag) is called and raw is its result
CodecBuild ==
    /\ \E seedStr \in CodecSeeds, flag \in BOOLEAN :
          /\ raw' = buildHash(seedStr, flag)
          /\ built' = <<[seed |-> seedStr, enforceConstraint |-> flag]>>
    /\ edits' = 0
    /\ parsed' = <<>>
    /\ UNCHANGED <<genVars, uiVars>>

Edited ==
    /\ edits < MaxEdits
    /\ edits' = edits + 1
    /\ built' = <<>>
    /\ parsed' = <<>>
    /\ UNCHANGED <<genVars, uiVars>>

\* The string is edited before it reaches parseHash: a character is replaced,
EditReplace ==
    /\ \E k \in DOMAIN raw, c \in EditChars : c # raw[k] /\ raw' = [raw EXCEPT ![k] = c]
    /\ Edited

\* inserted,
EditInsert ==
    /\ \E k \in 0..Len(raw), c \in EditChars :
          raw' = SubSeq(raw, 1, k) \o <<c>> \o SubSeq(raw, k + 1, Len(raw))
    /\ Edited

\* or deleted.
EditDelete ==
    /\ \E k \in DOMAIN raw : raw' = SubSeq(raw, 1, k - 1) \o SubSeq(raw, k + 1, Len(raw))
    /\ Edited

\* parseHash(raw) is called
CodecParse ==
    /\ parsed = <<>>
    /\ parsed' = <<parseHash(raw)>>
    /\ UNCHANGED <<raw, built, edits>>
    /\ UNCHANGED <<genVars, uiVars>>

NextCodec == CodecBuild \/ EditReplace \/ EditInsert \/ EditDelete \/ CodecParse

SpecCodec == InitCodec /\ [][NextCodec]_vars

\* The grammar ^[a-z0-9]{6}-[01]$ in words: six characters of the seed
\* alphabet, a '-', and one of '0' and '1'
Grammar(str) ==
    /\ Len(str) = 8
    /\ \A k \in 1..6 : str[k] \in Range(SEED_CHARS)
    /\ str[7] = "-"
    /\ str[8] \in {"0", "1"}

\* C6: parseHash(buildHash(seed, flag)) is the object {seed, flag}, for every
\* six-character seed of the alphabet and either flag.
C6_RoundTrip == (built # <<>> /\ parsed # <<>>) => parsed[1] = built

\* C6 witness: a string built for an unconstrained board has been parsed back.
C6_Witness ==
    /\ built # <<>> /\ parsed # <<>>
    /\ ~built[1].enforceConstraint
    /\ parsed[1] = built

\* C7: parseHash returns an object exactly for the strings of the grammar,
\* the object holds the string's first six characters and whether its last
\* is '1', and every other string gets null.
C7_ParseExactly ==
    parsed # <<>> =>
        /\ (parsed[1] # <<>>) <=> Grammar(raw)
        /\ parsed[1] # <<>> =>
              /\ parsed[1][1].seed = SubSeq(raw, 1, 6)
              /\ parsed[1][1].enforceConstraint = (raw[8] = "1")

\* C7 witness: a string of the grammar followed by one more character has
\* been parsed and got null.
C7_Witness ==
    /\ parsed # <<>> /\ parsed[1] = <<>>
    /\ Len(raw) = 9 /\ Grammar(SubSeq(raw, 1, 8))

\* ---------------------------------------------------------- the placer alone

PlaceCells == {0, 1, 3, 4}

PlaceNumbers == {5, 6, 8}

\* Tuples over S of length n
TuplesOf(S, n) == [1..n -> S]

\* The boards the placer is called on: no listed position holds a number; hex
\* 5, which is never listed, may hold one.
PlaceBoards == {[freshTiles(TILES) EXCEPT ![6].number = preset] : preset \in {Null, 6}}

InitPlace ==
    /\ UiIdle /\ CodecIdle
    /\ \E n \in 0..MaxPlaceLen :
       \E positions \in {s \in TuplesOf(PlaceCells, n) :
                            \A a \in 1..n : \A b \in 1..n : s[a] = s[b] => a = b} :
       \E numbers \in TuplesOf(PlaceNumbers, n) :
       \E tilesArg \in PlaceBoards :
          /\ board = tilesArg
          /\ stack = <<Frame(positions, numbers)>>
          /\ input = [tiles |-> tilesArg, positions |-> positions, numbers |-> numbers]
    /\ found = FALSE
    /\ pc = "search"
    /\ callArgs = <<>>
    /\ rng = <<0, 0>>
    /\ draws = 0
    /\ shuf = NoShuffle
    /\ shuffledTiles = <<>>
    /\ shuffledNumbers = <<>>
    /\ enforce = TRUE
    /\ attempt = 0
    /\ tries = 0
    /\ warned = FALSE
    /\ first = <<>>

NextPlace == PlaceStep

SpecPlace == InitPlace /\ [][NextPlace]_vars

\* The one-to-one assignments of n numbers to n positions: perm[k] is the
\* index in the numbers list of the number given to the k-th position.
Perms(n) == {s \in TuplesOf(1..n, n) : \A a \in 1..n : \A b \in 1..n : s[a] = s[b] => a = b}

\* The tiles with the assignment made
Assigned(tilesArg, positions, numbers, perm) ==
    [j \in DOMAIN tilesArg |->
        IF \E k \in DOMAIN positions : positions[k] + 1 = j
        THEN [tilesArg[j] EXCEPT
                !.number = numbers[perm[CHOOSE k \in DOMAIN positions : positions[k] + 1 = j]]]
        ELSE tilesArg[j]]

\* No listed position conflicts with a numbered neighbour
ConflictFree(tilesArg, positions) ==
    \A k \in DOMAIN positions :
        \A q \in Range(ADJACENCY[positions[k] + 1]) :
            ~violatesConstraint(tilesArg[positions[k] + 1].number, tilesArg[q + 1].number)

\* Depth-first order: the first position where two assignments differ decides
Before(a, b) ==
    \E k \in DOMAIN a :
        /\ a[k] < b[k]
        /\ \A j \in 1..(k - 1) : a[j] = b[j]

PlaceSolutions ==
    {perm \in Perms(Len(input.positions)) :
        ConflictFree(Assigned(input.tiles, input.positions, input.numbers, perm),
                     input.positions)}

\* C9: the placer returns true exactly when a conflict-free one-to-one
\* assignment exists; it then leaves the first one in depth-first order in
\* tiles; when it returns false tiles is as it was, every listed position null.
C9_CompleteSearch ==
    (pc = "searched" /\ callArgs = <<>>) =>
        /\ found <=> PlaceSolutions # {}
        /\ found =>
              \E perm \in PlaceSolutions :
                  /\ \A other \in PlaceSolutions : other = perm \/ Before(perm, other)
                  /\ board = Assigned(input.tiles, input.positions, input.numbers, perm)
        /\ ~found =>
              /\ \A k \in DOMAIN input.positions : board[input.positions[k] + 1].number = Null
              /\ board = input.tiles

\* C9 witness: the search succeeded after giving up a first candidate that
\* was a valid placement when it was tried.
C9_Witness ==
    /\ pc = "searched" /\ callArgs = <<>>
    /\ found
    /\ Len(input.positions) = 3
    /\ isValidPlacement(input.tiles, input.positions[1], input.numbers[1], TRUE)
    /\ board[input.positions[1] + 1].number # input.numbers[1]
    /\ PlaceSolutions # {}

\* C9 witness of the failing case is part of the same runs: a search that
\* returned false after placing and removing numbers.
C9_FailureReached ==
    /\ pc = "searched" /\ callArgs = <<>>
    /\ ~found
    /\ Len(input.positions) = 3
    /\ isValidPlacement(input.tiles, input.positions[1], input.numbers[1], TRUE)

\* ------------------------------------------------------------- the renderer

\* The hexes of one row as the nested loops of CatanBoard place them: x in
\* units of half a hex width (rowOffset + col, doubled), y in rows.
hexRow(row) ==
    [col \in 1..ROW_SIZES[row + 1] |->
        [x |-> (5 - ROW_SIZES[row + 1]) + 2 * (col - 1), y |-> row]]

\* hexElements[tileIndex + 1] is where tiles[tileIndex] is drawn
hexElements == hexRow(0) \o hexRow(1) \o hexRow(2) \o hexRow(3) \o hexRow(4)

\* Two pointy-top hexes of the grid share an edge when their centres are one
\* hex width apart: two half-widths in a row, or one half-width and one row.
SharesEdge(a, b) ==
    (a.x - b.x) * (a.x - b.x) + 3 * (a.y - b.y) * (a.y - b.y) = 4

\* ------------------------------------------------------------ the component

UiSeeds == {GoldenSeed} \cup {SeedString(i) : i \in 1..NumUiSeeds}

\* The fragments a user may type or navigate to
UrlInputs == {buildHash(s, f) : s \in UiSeeds, f \in BOOLEAN} \cup RejectionExamples

\* window.location.hash: '#' and the fragment, or '' when there is none
locationHash == IF hash = <<>> THEN <<>> ELSE <<"#">> \o hash

\* str.replace('#', ''): the first '#' removed
removeFirstHash(str) ==
    IF \E k \in DOMAIN str : str[k] = "#"
    THEN LET k == CHOOSE k \in DOMAIN str :
                     str[k] = "#" /\ \A j \in 1..(k - 1) : str[j] # "#"
         IN  SubSeq(str, 1, k - 1) \o SubSeq(str, k + 1, Len(str))
    ELSE str

\* window.location.hash = h: a hashchange event is queued when the fragment changes
setLocationHash(h) ==
    /\ (h # hash) => pending < MaxPending
    /\ hash' = h
    /\ pending' = IF h # hash THEN pending + 1 ELSE pending

Quiet == mounted /\ ~handler.running

enter(name, seedStr, flag) ==
    handler' = [name |-> name, running |-> TRUE, seed |-> seedStr, enforceConstraint |-> flag]

Init ==
    /\ GenIdle /\ CodecIdle
    /\ mounted = FALSE
    /\ hash \in UrlInputs
    /\ seed = <<>>
    /\ enforceConstraint = FALSE
    /\ tiles = <<>>
    /\ pending = 0
    /\ handler = NoHandler

\* The first render: getStateFromHash, then generateBoardFromSeed for its answer
Mount ==
    /\ ~mounted /\ ~handler.running
    /\ LET p == parseHash(removeFirstHash(locationHash))
       IN  IF p # <<>>
           THEN /\ callGenerate(p[1].seed, p[1].enforceConstraint)
                /\ enter("mount", p[1].seed, p[1].enforceConstraint)
                /\ UNCHANGED <<hash, pending>>
           ELSE \E newSeed \in UiSeeds :
                   /\ setLocationHash(buildHash(newSeed, TRUE))
                   /\ callGenerate(newSeed, TRUE)
                   /\ enter("mount", newSeed, TRUE)
    /\ UNCHANGED <<first, mounted, seed, enforceConstraint, tiles>>
    /\ UNCHANGED codecVars

\* regenerate: the 'Generate New Board' button
Regenerate ==
    /\ Quiet
    /\ \E newSeed \in UiSeeds :
          /\ setLocationHash(buildHash(newSeed, enforceConstraint))
          /\ callGenerate(newSeed, enforceConstraint)
          /\ enter("regenerate", newSeed, enforceConstraint)
    /\ UNCHANGED <<first, mounted, seed, enforceConstraint, tiles>>
    /\ UNCHANGED codecVars

\* handleConstraintChange(checked): the checkbox, which shows enforceConstraint
HandleConstraintChange ==
    /\ Quiet
    /\ LET checked == ~enforceConstraint
       IN  /\ setLocationHash(buildHash(seed, checked))
           /\ callGenerate(seed, checked)
           /\ enter("constraint", seed, checked)
    /\ UNCHANGED <<first, mounted, seed, enforceConstraint, tiles>>
    /\ UNCHANGED codecVars

\* The user edits the URL or goes back or forward
Navigate ==
    /\ Quiet
    /\ \E h \in UrlInputs : h # hash /\ setLocationHash(h)
    /\ UNCHANGED <<genVars, mounted, seed, enforceConstraint, tiles, handler>>
    /\ UNCHANGED codecVars

\* Mutant: && for ||
hashDiffersBoth(p) == p.seed # seed /\ p.enforceConstraint # enforceConstraint

\* parsed.seed !== seed || parsed.enforceConstraint !== enforceConstraint
hashDiffers(p) == p.seed # seed \/ p.enforceConstraint # enforceConstraint

\* onHashChange: a queued hashchange event is delivered
OnHashChange ==
    /\ Quiet
    /\ pending > 0
    /\ pending' = pending - 1
    /\ LET p == parseHash(removeFirstHash(locationHash))
       IN  IF p # <<>> /\ hashDiffers(p[1])
           THEN /\ callGenerate(p[1].seed, p[1].enforceConstraint)
                /\ enter("hashchange", p[1].seed, p[1].enforceConstraint)
           ELSE UNCHANGED <<pc, callArgs, rng, draws, shuf, shuffledTiles, shuffledNumbers,
                            enforce, attempt, tries, warned, board, stack, found, input,
                            handler>>
    /\ UNCHANGED <<first, mounted, hash, seed, enforceConstraint, tiles>>
    /\ UNCHANGED codecVars

\* The state setters each handler calls with generateBoardFromSeed's result
settersOf(name) ==
    IF name = "regenerate" THEN {"setSeed", "setTiles"}
    ELSE IF name = "constraint" THEN {"setEnforceConstraint", "setTiles"}
    ELSE {"setSeed", "setEnforceConstraint", "setTiles"}

\* generateBoardFromSeed has returned to the handler, which sets the state
HandlerReturn ==
    /\ handler.running
    /\ pc = "done"
    /\ seed' = IF "setSeed" \in settersOf(handler.name) THEN handler.seed ELSE seed
    /\ enforceConstraint' = IF "setEnforceConstraint" \in settersOf(handler.name)
                            THEN handler.enforceConstraint ELSE enforceConstraint
    /\ tiles' = IF "setTiles" \in settersOf(handler.name) THEN board ELSE tiles
    /\ mounted' = TRUE
    /\ handler' = [handler EXCEPT !.running = FALSE]
    /\ UNCHANGED <<genVars, hash, pending>>
    /\ UNCHANGED codecVars

Next ==
    \/ Mount \/ Regenerate \/ HandleConstraintChange \/ Navigate \/ OnHashChange
    \/ HandlerReturn
    \/ GenLoop \/ ShuffleStep \/ GenPlace \/ PlaceStep \/ GenAfterSearch

Spec == Init /\ [][Next]_vars

\* C4: the table lists q for p exactly when the hexes the renderer draws for
\* p and q share an edge.
C4_AdjacencyIsHexLayout ==
    mounted =>
        \A p \in 0..18 : \A q \in 0..18 :
            (q \in Range(ADJACENCY[p + 1])) <=> SharesEdge(hexElements[p + 1], hexElements[q + 1])

\* C8: once no handler runs and no hashchange event is queued, a valid URL
\* fragment is the component's seed and flag, and the tiles shown are what
\* generateBoardFromSeed returned for that seed and flag.
C8_UrlShowsBoard ==
    (Quiet /\ pending = 0 /\ parseHash(hash) # <<>>) =>
        /\ seed = parseHash(hash)[1].seed
        /\ enforceConstraint = parseHash(hash)[1].enforceConstraint
        /\ pc = "done"
        /\ Args = [seed |-> seed, enforceConstraint |-> enforceConstraint]
        /\ tiles = board

\* C8 witness: a hashchange event has made the component generate the board
\* of the fragment the user navigated to, and nothing is left to run.
C8_Witness ==
    /\ Quiet /\ pending = 0 /\ parseHash(hash) # <<>>
    /\ handler.name = "hashchange"
    /\ seed = parseHash(hash)[1].seed
    /\ ~enforceConstraint /\ ~parseHash(hash)[1].enforceConstraint
    /\ tiles = board

====
